---- MODULE Spec2Model ----
(***************************************************************************)
(* Job lifecycle and event correlation of comfy-client.ts: ComfyJob        *)
(* (queue, cancel) and ComfyClient (the socket message handler, the job    *)
(* registry #jobs, clear_queue, delete_queue_entries, post_prompt).        *)
(*                                                                         *)
(* Every `await` of the source is a point where another handler may run,   *)
(* so each async method is cut into one action per synchronous segment.    *)
(* The callbacks a caller passes to queue() are taken to be supplied on    *)
(* every call; their invocations are counted in nCompleted, nCancelled,    *)
(* nUpdate and nError.                                                     *)
(*                                                                         *)
(* Spec is the job lifecycle. SpecSocket adds the state of the socket and  *)
(* close(), SpecCompletion adds completion(), SpecClone adds clone(),      *)
(* SpecErrors the errors handed to onError, SpecHttp the status of the     *)
(* responses to POST /queue, SpecFrames frames of other types and          *)
(* SpecPrompt the status of the responses to POST /prompt.                 *)
(***************************************************************************)
EXTENDS Integers, Sequences, FiniteSets, TLC

\* ---------------------------------------------------------------- bounds
NumJobs == 2      \* ComfyJob objects
MaxCalls == 2     \* queue() invocations per job object
MaxQueued == 3    \* queue() invocations in all
MaxOps == 1       \* cancel / clear_queue / delete_queue_entries invocations at a time
MaxCb == 2        \* cap of the callback counters
MaxNode == 1      \* non-null node numbers an 'executing' frame may carry
MaxClose == 2     \* close() invocations

Jobs == 1..NumJobs
Calls == 1..MaxCalls
Ops == 1..MaxOps
MaxId == MaxQueued
Ids == 1..MaxId
NoId == 0         \* #uid === undefined
NoJob == 0
NullNode == -1    \* data.node === null

ComfyJob_Status == {"building", "queued", "running", "completed", "failed", "cancelled"}
Terminal == {"completed", "failed", "cancelled"}

VARIABLES
    status,      \* ComfyJob.#status
    uid,         \* ComfyJob.#uid
    jobs,        \* ComfyClient.#jobs, in insertion order: <<[key, job], ...>>
    nCompleted,  \* invocations of the caller's onCompleted, per job
    nCancelled,  \* invocations of the caller's onCancelled, per job
    nUpdate,     \* invocations of the caller's onUpdate, per job
    nError,      \* invocations of the caller's onError, per job
    qcall,       \* the queue() invocations of each job and where each stands
    nextId,      \* the next prompt_id the backend hands out
    ops,         \* cancel / clear_queue / delete_queue_entries invocations
    frames,      \* the frames the socket message handler was given, modulo 2
    running,     \* ComfyClient.#running
    socket,      \* the state of ComfyClient.#socket
    nClose,      \* invocations of ComfyClient.close()
    resolvedAt,  \* the status each job had when its completion() resolved
    spinning,    \* a completion() is in its loop and never leaves the thread
    workflow,    \* ComfyJob.#workflow; "absent" while the object is not made
    origin,      \* the job a job was cloned from
    errArg,      \* the errors the caller's onError was last given, per job
    errors,      \* ComfyJob.#errors
    response,    \* the status code of the last response to POST /queue
    thrown,      \* the Error clear_queue / delete_queue_entries last threw
    last,        \* the frame the message handler was last given
    before,      \* the type of the frame it was given before that one
    promptResponse,  \* the status code of the last response to POST /prompt
    promptThrown     \* the Error post_prompt last threw, and queue() with it

jobvars == <<status, uid, jobs, nCompleted, nCancelled, nUpdate, nError,
             qcall, nextId, ops, frames>>
sockvars == <<running, socket, nClose>>
waitvars == <<resolvedAt, spinning>>
clonevars == <<workflow, origin>>
errvars == <<errArg, errors>>
httpvars == <<response, thrown>>
framevars == <<last, before>>
promptvars == <<promptResponse, promptThrown>>
ext == <<sockvars, waitvars, clonevars, errvars, httpvars, framevars, promptvars>>
vars == <<jobvars, ext>>

\* ------------------------------------------------------------- registry
RECURSIVE IndexOfKey(_, _, _)
IndexOfKey(m, k, i) ==
    IF i > Len(m) THEN 0
    ELSE IF m[i].key = k THEN i ELSE IndexOfKey(m, k, i + 1)

MapHas(m, k) == IndexOfKey(m, k, 1) # 0
MapGet(m, k) == m[IndexOfKey(m, k, 1)]
\* Map.set: an existing key keeps its place, a new key goes last
MapSet(m, k, j) ==
    IF MapHas(m, k)
    THEN [m EXCEPT ![IndexOfKey(m, k, 1)] = [key |-> k, job |-> j]]
    ELSE Append(m, [key |-> k, job |-> j])
MapDelete(m, k) == SelectSeq(m, LAMBDA e : e.key # k)

registerExecutingCallback(m, j, u) == MapSet(m, u[j], j)
unregisterExecutingCallback(m, j, u) == MapDelete(m, u[j])

\* ------------------------------------------------------------ init
IdleCall == [pc |-> "idle", ok |-> FALSE, prompt_id |-> NoId, node_errors |-> FALSE]
IdleOp == [kind |-> "none", pc |-> "idle", of |-> NoJob, sent |-> FALSE,
           entries |-> {}, visited |-> {}, live1 |-> {}]

Payloads == {"wf1", "wf2"}
NoError == [message |-> "none", cause |-> 0]
NoFrame == [type |-> "none", prompt_id |-> NoId, node |-> NullNode]

\* a client and its job objects, less the workflows of the jobs
InitClient ==
    /\ status = [j \in Jobs |-> "building"]
    /\ uid = [j \in Jobs |-> NoId]
    /\ jobs = <<>>
    /\ nCompleted = [j \in Jobs |-> 0]
    /\ nCancelled = [j \in Jobs |-> 0]
    /\ nUpdate = [j \in Jobs |-> 0]
    /\ nError = [j \in Jobs |-> 0]
    /\ qcall = [j \in Jobs |-> [c \in Calls |-> IdleCall]]
    /\ nextId = 1
    /\ ops = [o \in Ops |-> IdleOp]
    /\ frames = 0
    /\ running = FALSE
    /\ socket = "connecting"
    /\ nClose = 0
    /\ resolvedAt = [j \in Jobs |-> "none"]
    /\ spinning = FALSE
    /\ origin = [j \in Jobs |-> NoJob]
    /\ errArg = [j \in Jobs |-> "none"]
    /\ errors = [j \in Jobs |-> "undefined"]
    /\ response = 0
    /\ thrown = NoError
    /\ last = NoFrame
    /\ before = "none"
    /\ promptResponse = 0
    /\ promptThrown = NoError

\* every job made by new ComfyJob(workflow)
Init ==
    /\ InitClient
    /\ workflow = [j \in Jobs |-> "wf1"]

\* ------------------------------------------------- ComfyJob.queue
\* the callbacks queue() registers with the client (the sync part of each)
onCompleted(j) ==
    /\ status' = [status EXCEPT ![j] = "completed"]
    /\ jobs' = unregisterExecutingCallback(jobs, j, uid)
    /\ nCompleted' = [nCompleted EXCEPT ![j] = @ + 1]

onUpdate(j) ==
    /\ status' = [status EXCEPT ![j] = "running"]
    /\ nUpdate' = [nUpdate EXCEPT ![j] = @ + 1]

onError(j) ==
    /\ status' = [status EXCEPT ![j] = "failed"]
    /\ jobs' = unregisterExecutingCallback(jobs, j, uid)
    /\ nError' = [nError EXCEPT ![j] = @ + 1]

onCancelled(j) ==
    /\ status' = [status EXCEPT ![j] = "cancelled"]
    /\ nCancelled' = [nCancelled EXCEPT ![j] = @ + 1]

\* a guard that only stops a job that is queued
QueueGuardNotQueued(j) == status[j] # "queued"

\* the guard of queue(): only a job still building goes on
QueueGuard(j) == status[j] = "building"

\* queue() is called: it throws at once, or sends POST /prompt and awaits
QueueCall(j, c) ==
    /\ qcall[j][c].pc = "idle"
    /\ c > 1 => qcall[j][c - 1].pc # "idle"
    /\ Cardinality({jc \in Jobs \X Calls : qcall[jc[1]][jc[2]].pc # "idle"}) < MaxQueued
    /\ IF QueueGuard(j)
       THEN qcall' = [qcall EXCEPT ![j][c].pc = "fetch"]
       ELSE qcall' = [qcall EXCEPT ![j][c].pc = "rejected_twice"]
    /\ UNCHANGED <<status, uid, jobs, nCompleted, nCancelled, nUpdate, nError,
                   nextId, ops, frames>>

\* the backend answers POST /prompt: not ok, or a fresh prompt_id with an
\* empty or non-empty node_errors map
BackendPrompt(j, c) ==
    /\ qcall[j][c].pc = "fetch"
    /\ \E ok \in BOOLEAN, ne \in BOOLEAN :
         IF ok
         THEN /\ qcall' = [qcall EXCEPT ![j][c] =
                    [pc |-> "resp", ok |-> TRUE, prompt_id |-> nextId, node_errors |-> ne]]
              /\ nextId' = nextId + 1
         ELSE /\ ~ne
              /\ qcall' = [qcall EXCEPT ![j][c] =
                    [pc |-> "resp", ok |-> FALSE, prompt_id |-> NoId, node_errors |-> FALSE]]
              /\ UNCHANGED nextId
    /\ UNCHANGED <<status, uid, jobs, nCompleted, nCancelled, nUpdate, nError,
                   ops, frames>>

\* whether queue() takes the node-errors branch
HasNodeErrors(r) == r.node_errors

\* queue() resumes after `await post_prompt`
QueueResume(j, c) ==
    /\ qcall[j][c].pc = "resp"
    /\ IF ~qcall[j][c].ok
       THEN /\ qcall' = [qcall EXCEPT ![j][c] = [IdleCall EXCEPT !.pc = "rejected_http"]]
            /\ UNCHANGED <<status, uid, jobs, nError>>
       ELSE /\ uid' = [uid EXCEPT ![j] = qcall[j][c].prompt_id]
            /\ IF HasNodeErrors(qcall[j][c])
               THEN /\ status' = [status EXCEPT ![j] = "failed"]
                    /\ nError' = [nError EXCEPT ![j] = @ + 1]
                    /\ qcall' = [qcall EXCEPT ![j][c].pc = "onError"]
                    /\ UNCHANGED jobs
               ELSE /\ status' = [status EXCEPT ![j] = "queued"]
                    /\ jobs' = registerExecutingCallback(jobs, j, uid')
                    /\ qcall' = [qcall EXCEPT ![j][c] = [IdleCall EXCEPT !.pc = "returned"]]
                    /\ UNCHANGED nError
    /\ UNCHANGED <<nCompleted, nCancelled, nUpdate, nextId, ops, frames>>

\* queue() resumes after `await this.#onError(...)`, registers and returns
QueueRegister(j, c) ==
    /\ qcall[j][c].pc = "onError"
    /\ jobs' = registerExecutingCallback(jobs, j, uid)
    /\ qcall' = [qcall EXCEPT ![j][c] = [IdleCall EXCEPT !.pc = "returned"]]
    /\ UNCHANGED <<status, uid, nCompleted, nCancelled, nUpdate, nError,
                   nextId, ops, frames>>

\* ------------------------------------- cancel, clear_queue, delete_queue_entries
Active == {j \in Jobs : status[j] \in {"queued", "running"}}

\* an invocation takes the first slot that holds no invocation under way
Finished(op) == op.pc \in {"idle", "returned", "rejected_http"}
FreeOp(o) ==
    /\ Finished(ops[o])
    /\ \A p \in 1..(o - 1) : ~Finished(ops[p])

\* a list of ignored statuses that misses 'completed'
CancelIgnoredButCompleted(s) == s \in {"cancelled", "failed", "building"}

\* the statuses for which cancel() returns at once
CancelIgnored(s) == s \in {"cancelled", "failed", "completed", "building"}

\* cancel(): returns at once, or calls delete_queue_entries([uid]) and awaits
cancel(j, o) ==
    /\ FreeOp(o)
    /\ IF CancelIgnored(status[j])
       THEN ops' = [ops EXCEPT ![o] =
                [IdleOp EXCEPT !.kind = "cancel", !.pc = "returned", !.of = j]]
       ELSE ops' = [ops EXCEPT ![o] =
                [IdleOp EXCEPT !.kind = "cancel", !.pc = "fetch", !.of = j,
                               !.sent = TRUE, !.entries = {uid[j]}]]
    /\ UNCHANGED <<status, uid, jobs, nCompleted, nCancelled, nUpdate, nError,
                   qcall, nextId, frames>>

\* clear_queue() is called: POST /queue {clear: true} is sent and awaited
clear_queue(o) ==
    /\ FreeOp(o)
    /\ ops' = [ops EXCEPT ![o] =
            [IdleOp EXCEPT !.kind = "clear_queue", !.pc = "fetch",
                           !.sent = TRUE]]
    /\ UNCHANGED <<status, uid, jobs, nCompleted, nCancelled, nUpdate, nError,
                   qcall, nextId, frames>>

\* delete_queue_entries(entries) is called by a user of the client:
\* POST /queue {delete: entries} is sent and awaited
delete_queue_entries(o, entries) ==
    /\ FreeOp(o)
    /\ ops' = [ops EXCEPT ![o] =
            [IdleOp EXCEPT !.kind = "delete_queue_entries", !.pc = "fetch",
                           !.sent = TRUE, !.entries = entries]]
    /\ UNCHANGED <<status, uid, jobs, nCompleted, nCancelled, nUpdate, nError,
                   qcall, nextId, frames>>

\* the id lists a caller passes: one id the backend has issued, or all of them
Issued == 1..(nextId - 1)
EntryLists == {{u} : u \in Issued} \cup {Issued}

\* the entries of #jobs the loop of an invocation calls onError for
Matches(op, k) == op.kind = "clear_queue" \/ k \in op.entries

\* `for (const [key, value] of this.#jobs)`: the iteration is live, so the
\* next entry is the first one in insertion order not yet passed
RECURSIVE NextEntry(_, _, _)
NextEntry(m, op, i) ==
    IF i > Len(m) THEN 0
    ELSE IF m[i].key \notin op.visited /\ Matches(op, m[i].key) THEN i
    ELSE NextEntry(m, op, i + 1)

\* one synchronous stretch of the loop: up to the next `await value.onError`,
\* or out of the loop to the return
LoopSegment(o, op) ==
    LET i == NextEntry(jobs, op, 1) IN
    IF i = 0
    THEN /\ ops' = [ops EXCEPT ![o] = [op EXCEPT !.pc = "returned", !.visited = {}, !.entries = {}]]
         /\ UNCHANGED <<status, jobs, nError>>
    ELSE /\ nError[jobs[i].job] < MaxCb
         /\ onError(jobs[i].job)
         /\ ops' = [ops EXCEPT ![o] =
                [op EXCEPT !.pc = "loop", !.visited = @ \cup {jobs[i].key}]]

\* the backend answers POST /queue and the invocation resumes: it throws on a
\* response that is not ok, else enters the loop
QueueResponse(o) ==
    /\ ops[o].pc = "fetch"
    /\ \E ok \in BOOLEAN :
         IF ok
         THEN LoopSegment(o, [ops[o] EXCEPT !.live1 = Active])
         ELSE /\ ops' = [ops EXCEPT ![o] = [IdleOp EXCEPT !.kind = ops[o].kind,
                                             !.of = ops[o].of, !.sent = TRUE,
                                             !.pc = "rejected_http"]]
              /\ UNCHANGED <<status, jobs, nError>>
    /\ UNCHANGED <<uid, nCompleted, nCancelled, nUpdate, qcall, nextId, frames>>

\* the invocation resumes after `await value.onError(...)`
LoopResume(o) ==
    /\ ops[o].pc = "loop"
    /\ LoopSegment(o, ops[o])
    /\ UNCHANGED <<uid, nCompleted, nCancelled, nUpdate, qcall, nextId, frames>>

\* ------------------------------------------------ the socket message handler
Nodes == {NullNode} \cup (1..MaxNode)
Frames ==
    {[type |-> t, prompt_id |-> NoId, node |-> NullNode] :
        t \in {"status", "crystools.monitor", "malformed"}}
    \cup {[type |-> "executing", prompt_id |-> u, node |-> n] :
        u \in Issued, n \in Nodes}

IsLastExecutionOfAnyType(f) ==
    f.node = NullNode /\ MapHas(jobs, f.prompt_id)

\* the frames for which the handler calls the entry's onCompleted
IsLastExecution(f) ==
    f.type = "executing" /\ f.node = NullNode /\ MapHas(jobs, f.prompt_id)

SocketMessage(f) ==
    /\ frames' = 1 - frames
    /\ IF IsLastExecution(f)
       THEN /\ nCompleted[MapGet(jobs, f.prompt_id).job] < MaxCb
            /\ onCompleted(MapGet(jobs, f.prompt_id).job)
       ELSE UNCHANGED <<status, jobs, nCompleted>>
    /\ UNCHANGED <<uid, nCancelled, nUpdate, nError, qcall, nextId, ops>>

\* ------------------------------------------------------------ specification
\* the job lifecycle alone: the socket is taken to deliver frames at any time
Next ==
    /\ \/ \E j \in Jobs, c \in Calls : QueueCall(j, c)
       \/ \E j \in Jobs, c \in Calls : BackendPrompt(j, c)
       \/ \E j \in Jobs, c \in Calls : QueueResume(j, c)
       \/ \E j \in Jobs, c \in Calls : QueueRegister(j, c)
       \/ \E j \in Jobs, o \in Ops : cancel(j, o)
       \/ \E o \in Ops : clear_queue(o)
       \/ \E o \in Ops : \E entries \in EntryLists : delete_queue_entries(o, entries)
       \/ \E o \in Ops : QueueResponse(o)
       \/ \E o \in Ops : LoopResume(o)
       \/ \E f \in Frames : SocketMessage(f)
    /\ UNCHANGED ext

Spec == Init /\ [][Next]_vars

\* the HTTP side of the client, with queue() invoked in the slots S only
Requests(S) ==
    \/ \E jc \in S : QueueCall(jc[1], jc[2])
    \/ \E j \in Jobs, c \in Calls : BackendPrompt(j, c)
    \/ \E j \in Jobs, c \in Calls : QueueResume(j, c)
    \/ \E j \in Jobs, c \in Calls : QueueRegister(j, c)
    \/ \E j \in Jobs, o \in Ops : cancel(j, o)
    \/ \E o \in Ops : clear_queue(o)
    \/ \E o \in Ops : \E entries \in EntryLists : delete_queue_entries(o, entries)
    \/ \E o \in Ops : QueueResponse(o)
    \/ \E o \in Ops : LoopResume(o)

\* one queue() invocation of every job
OneCallEach == {<<j, 1>> : j \in Jobs}

\* ------------------------------------------------ the socket of the client
\* the 'open' listener
SocketOpen ==
    /\ socket = "connecting"
    /\ socket' = "open"
    /\ running' = TRUE
    /\ UNCHANGED <<nClose, jobvars>>

\* the 'error' listener; the socket fails and its 'close' event is pending
SocketError ==
    /\ socket \in {"connecting", "open", "closing"}
    /\ socket' = "failed"
    /\ running' = FALSE
    /\ UNCHANGED <<nClose, jobvars>>

\* the 'close' listener
SocketClose ==
    /\ socket # "closed"
    /\ socket' = "closed"
    /\ running' = FALSE
    /\ UNCHANGED <<nClose, jobvars>>

closeKeepsRunning ==
    /\ nClose < MaxClose
    /\ nClose' = nClose + 1
    /\ socket' = IF socket \in {"connecting", "open"} THEN "closing" ELSE socket
    /\ UNCHANGED <<running, jobvars>>

\* ComfyClient.close(): WebSocket.close() does nothing on a socket that is
\* closing or closed
close ==
    /\ nClose < MaxClose
    /\ nClose' = nClose + 1
    /\ socket' = IF socket \in {"connecting", "open"} THEN "closing" ELSE socket
    /\ running' = FALSE
    /\ UNCHANGED jobvars

\* frames are delivered while the socket is open or closing
SocketDelivers(f) ==
    /\ socket \in {"open", "closing"}
    /\ SocketMessage(f)
    /\ UNCHANGED sockvars

NextSocket ==
    /\ \/ Requests(OneCallEach) /\ UNCHANGED sockvars
       \/ \E f \in Frames : SocketDelivers(f)
       \/ SocketOpen
       \/ SocketError
       \/ SocketClose
       \/ close
    /\ UNCHANGED <<waitvars, clonevars, errvars, httpvars, framevars, promptvars>>

SpecSocket == Init /\ [][NextSocket]_vars

\* ------------------------------------------------ ComfyJob.completion
\* The loop is left at once unless the status is 'running'. In that status
\* sleep(0) is called and its promise is not awaited, so the loop goes round
\* without ever giving the thread back: no handler runs again.
completion(j) ==
    /\ resolvedAt[j] = "none"
    /\ IF status[j] = "running"
       THEN spinning' = TRUE /\ UNCHANGED resolvedAt
       ELSE resolvedAt' = [resolvedAt EXCEPT ![j] = status[j]] /\ UNCHANGED spinning
    /\ UNCHANGED jobvars

NextCompletion ==
    /\ ~spinning
    /\ \/ Requests(OneCallEach) /\ UNCHANGED waitvars
       \/ \E f \in Frames : SocketMessage(f) /\ UNCHANGED waitvars
       \/ \E j \in Jobs : completion(j)
    /\ UNCHANGED <<sockvars, clonevars, errvars, httpvars, framevars, promptvars>>

SpecCompletion == Init /\ [][NextCompletion]_vars

\* ------------------------------------------------ ComfyJob.clone
Made == {j \in Jobs : workflow[j] # "absent"}

cloneKeepsEmptyWorkflow(j, k) ==
    /\ j \in Made
    /\ k \notin Made
    /\ status' = [status EXCEPT ![k] = "building"]
    /\ uid' = [uid EXCEPT ![k] = NoId]
    /\ workflow' = [workflow EXCEPT ![k] = "{}"]
    /\ origin' = [origin EXCEPT ![k] = j]
    /\ UNCHANGED <<jobs, nCompleted, nCancelled, nUpdate, nError, qcall, nextId,
                   ops, frames>>

\* k is the object new ComfyJob({}) makes: its fields have their initial
\* values, and #workflow is then set to that of j
clone(j, k) ==
    /\ j \in Made
    /\ k \notin Made
    /\ status' = [status EXCEPT ![k] = "building"]
    /\ uid' = [uid EXCEPT ![k] = NoId]
    /\ workflow' = [workflow EXCEPT ![k] = workflow[j]]
    /\ origin' = [origin EXCEPT ![k] = j]
    /\ UNCHANGED <<jobs, nCompleted, nCancelled, nUpdate, nError, qcall, nextId,
                   ops, frames>>

\* one job made by new ComfyJob(workflow); every other job is to be a clone
InitClone ==
    /\ InitClient
    /\ \E w \in Payloads :
          workflow = [j \in Jobs |-> IF j = 1 THEN w ELSE "absent"]

CloneSlots == {<<1, 1>>, <<1, 2>>} \cup {<<j, 1>> : j \in Jobs}

NextClone ==
    /\ \/ /\ \/ \E jc \in CloneSlots : jc[1] \in Made /\ QueueCall(jc[1], jc[2])
             \/ \E j \in Jobs, c \in Calls : BackendPrompt(j, c)
             \/ \E j \in Jobs, c \in Calls : QueueResume(j, c)
             \/ \E j \in Jobs, c \in Calls : QueueRegister(j, c)
             \/ \E j \in Made, o \in Ops : cancel(j, o)
             \/ \E o \in Ops : clear_queue(o)
             \/ \E o \in Ops : \E entries \in EntryLists : delete_queue_entries(o, entries)
             \/ \E o \in Ops : QueueResponse(o)
             \/ \E o \in Ops : LoopResume(o)
             \/ \E f \in Frames : SocketMessage(f)
          /\ UNCHANGED clonevars
       \/ \E j, k \in Jobs : clone(j, k)
    /\ UNCHANGED <<sockvars, waitvars, errvars, httpvars, framevars, promptvars>>

SpecClone == InitClone /\ [][NextClone]_vars

\* ------------------------------------------------ the errors of a job
\* the node_errors member of a response, as a value
NodeErrorsOf(r) == IF r.node_errors THEN "node_errors" ELSE "{}"

\* the errors member of a response: the backend may leave it out, and what
\* it holds when present is not tied to node_errors
ErrorsMember == {"undefined", "node_errors", "other"}

\* queue() from the response on, with the argument it gives onError: the
\* response's errors member e. Nothing assigns #errors.
QueueResumeWithErrors(j, c, e) ==
    /\ QueueResume(j, c)
    /\ errArg' = IF nError'[j] # nError[j] THEN [errArg EXCEPT ![j] = e] ELSE errArg
    /\ UNCHANGED errors

\* clear_queue and delete_queue_entries give onError the literal []
LoopWithErrors(o) ==
    /\ QueueResponse(o) \/ LoopResume(o)
    /\ errArg' = [j \in Jobs |-> IF nError'[j] # nError[j] THEN "[]" ELSE errArg[j]]
    /\ UNCHANGED errors

NextErrors ==
    /\ \/ \E jc \in OneCallEach : QueueCall(jc[1], jc[2]) /\ UNCHANGED errvars
       \/ \E j \in Jobs, c \in Calls : BackendPrompt(j, c) /\ UNCHANGED errvars
       \/ \E j \in Jobs, c \in Calls : \E e \in ErrorsMember :
             QueueResumeWithErrors(j, c, e)
       \/ \E j \in Jobs, c \in Calls : QueueRegister(j, c) /\ UNCHANGED errvars
       \/ \E j \in Jobs, o \in Ops : cancel(j, o) /\ UNCHANGED errvars
       \/ \E o \in Ops : clear_queue(o) /\ UNCHANGED errvars
       \/ \E o \in Ops : \E entries \in EntryLists :
             delete_queue_entries(o, entries) /\ UNCHANGED errvars
       \/ \E o \in Ops : LoopWithErrors(o)
       \/ \E f \in Frames : SocketMessage(f) /\ UNCHANGED errvars
    /\ UNCHANGED <<sockvars, waitvars, clonevars, httpvars, framevars, promptvars>>

SpecErrors == Init /\ [][NextErrors]_vars

\* ------------------------------------------------ responses that are not ok
\* the status codes the backend answers POST /queue with
Statuses == {200, 400, 500}
StatusText(st) ==
    CASE st = 200 -> "OK"
      [] st = 400 -> "Bad Request"
      [] st = 500 -> "Internal Server Error"

\* Response.ok
ResponseOk(st) == st \in 200..299

RequestErrorNoCause(st) == [message |-> StatusText(st), cause |-> 0]

\* Error(tmp.statusText, { cause: tmp.status })
RequestError(st) == [message |-> StatusText(st), cause |-> st]

\* the response to POST /queue has status st
QueueResponseWithStatus(o, st) ==
    /\ QueueResponse(o)
    /\ (ops'[o].pc = "rejected_http") <=> ~ResponseOk(st)
    /\ response' = st
    /\ thrown' = IF ResponseOk(st) THEN thrown ELSE RequestError(st)

NextHttp ==
    /\ \/ \E jc \in OneCallEach : QueueCall(jc[1], jc[2]) /\ UNCHANGED httpvars
       \/ \E j \in Jobs, c \in Calls : BackendPrompt(j, c) /\ UNCHANGED httpvars
       \/ \E j \in Jobs, c \in Calls : QueueResume(j, c) /\ UNCHANGED httpvars
       \/ \E j \in Jobs, c \in Calls : QueueRegister(j, c) /\ UNCHANGED httpvars
       \/ \E j \in Jobs, o \in Ops : cancel(j, o) /\ UNCHANGED httpvars
       \/ \E o \in Ops : clear_queue(o) /\ UNCHANGED httpvars
       \/ \E o \in Ops : \E entries \in EntryLists :
             delete_queue_entries(o, entries) /\ UNCHANGED httpvars
       \/ \E o \in Ops : \E st \in Statuses : QueueResponseWithStatus(o, st)
       \/ \E o \in Ops : LoopResume(o) /\ UNCHANGED httpvars
       \/ \E f \in Frames : SocketMessage(f) /\ UNCHANGED httpvars
    /\ UNCHANGED <<sockvars, waitvars, clonevars, errvars, framevars, promptvars>>

SpecHttp == Init /\ [][NextHttp]_vars

\* ------------------------------------------------ frames of other types
\* frames of a type the handler has no branch for; like 'executing' frames
\* they may name a prompt and a node
OtherFrames ==
    {[type |-> "executed", prompt_id |-> u, node |-> n] : u \in Issued, n \in Nodes}

\* a frame that JSON.parse throws on, or of a type without a branch
Dropped(f) == f.type \in {"malformed", "crystools.monitor", "executed"}

\* the message handler, given any frame
SocketFrame(f) ==
    /\ SocketMessage(f)
    /\ last' = f
    /\ before' = last.type

NextFrames ==
    /\ \/ Requests(OneCallEach) /\ UNCHANGED framevars
       \/ \E f \in Frames \cup OtherFrames : SocketFrame(f)
    /\ UNCHANGED <<sockvars, waitvars, clonevars, errvars, httpvars, promptvars>>

SpecFrames == Init /\ [][NextFrames]_vars

\* ------------------------------------------------ POST /prompt not ok
\* queue() from the response on, the response having status st: post_prompt
\* returns the body of a response that is ok and throws on any other, and
\* queue() has no catch around its await
QueueResumeWithStatus(j, c, st) ==
    /\ QueueResume(j, c)
    /\ qcall[j][c].ok <=> ResponseOk(st)
    /\ promptResponse' = st
    /\ promptThrown' = IF ResponseOk(st) THEN promptThrown ELSE RequestError(st)

\* two queue() invocations of one job
TwoCalls == {<<1, 1>>, <<1, 2>>}

NextPrompt ==
    /\ \/ \E jc \in TwoCalls : QueueCall(jc[1], jc[2]) /\ UNCHANGED promptvars
       \/ \E j \in Jobs, c \in Calls : BackendPrompt(j, c) /\ UNCHANGED promptvars
       \/ \E j \in Jobs, c \in Calls : \E st \in Statuses :
             QueueResumeWithStatus(j, c, st)
       \/ \E j \in Jobs, c \in Calls : QueueRegister(j, c) /\ UNCHANGED promptvars
       \/ \E j \in Jobs, o \in Ops : cancel(j, o) /\ UNCHANGED promptvars
       \/ \E o \in Ops : clear_queue(o) /\ UNCHANGED promptvars
       \/ \E o \in Ops : \E entries \in EntryLists :
             delete_queue_entries(o, entries) /\ UNCHANGED promptvars
       \/ \E o \in Ops : QueueResponse(o) /\ UNCHANGED promptvars
       \/ \E o \in Ops : LoopResume(o) /\ UNCHANGED promptvars
       \/ \E f \in Frames : SocketMessage(f) /\ UNCHANGED promptvars
    /\ UNCHANGED <<sockvars, waitvars, clonevars, errvars, httpvars, framevars>>

SpecPrompt == Init /\ [][NextPrompt]_vars

TypeOK ==
    /\ status \in [Jobs -> ComfyJob_Status]
    /\ uid \in [Jobs -> Ids \cup {NoId}]
    /\ \A i \in 1..Len(jobs) : jobs[i].key \in Ids /\ jobs[i].job \in Jobs
    /\ nextId \in 1..(MaxId + 1)

\* ------------------------------------------------------------ properties
Rank(s) ==
    CASE s = "building" -> 0
      [] s = "queued" -> 1
      [] s = "running" -> 2
      [] OTHER -> 3

\* POST /prompt requests sent for a job so far
Posts(j) == Cardinality({c \in Calls : qcall[j][c].pc \notin {"idle", "rejected_twice"}})

\* the jobs the registry holds an entry of
Tracked(m) == {m[i].job : i \in 1..Len(m)}

CallbacksUnchanged(j) ==
    /\ nCompleted'[j] = nCompleted[j]
    /\ nCancelled'[j] = nCancelled[j]
    /\ nUpdate'[j] = nUpdate[j]
    /\ nError'[j] = nError[j]

\* C1: the status of a job only moves forward along
\* building -> queued -> running -> {completed, failed, cancelled}: it never
\* returns to building or queued, and a terminal status never changes.
C1_StatusIsPath ==
    [][\A j \in Jobs :
        status'[j] # status[j] => Rank(status'[j]) > Rank(status[j])]_vars

\* C2: an 'executing' frame with a non-null node for a tracked job that is
\* queued moves the job to running and invokes its progress callback once.
C2_ProgressRuns ==
    [][\A f \in Frames :
        (/\ SocketMessage(f)
         /\ f.type = "executing"
         /\ f.node # NullNode
         /\ MapHas(jobs, f.prompt_id)
         /\ status[MapGet(jobs, f.prompt_id).job] = "queued")
        => LET j == MapGet(jobs, f.prompt_id).job IN
           /\ status'[j] = "running"
           /\ nUpdate'[j] = nUpdate[j] + 1]_vars

\* C3: when queue() returns after a response with node errors, the job is
\* failed and the registry has no entry for the job's identity.
C3_NodeErrorsNotRegistered ==
    [][\A j \in Jobs, c \in Calls :
        (qcall[j][c].pc = "onError" /\ qcall'[j][c].pc = "returned")
        => (status'[j] = "failed" /\ ~MapHas(jobs', uid'[j]))]_vars

\* C4: once a queue() call on a job has returned with a submission response,
\* every queue() call started later throws, sends no POST /prompt and leaves
\* the status, the identity and the registry as they were.
C4_LaterQueueThrows ==
    [][\A j \in Jobs, c \in Calls :
        (/\ qcall[j][c].pc = "idle"
         /\ qcall'[j][c].pc # "idle"
         /\ \E d \in Calls : qcall[j][d].pc = "returned")
        => (/\ qcall'[j][c].pc = "rejected_twice"
            /\ Posts(j)' = Posts(j)
            /\ status' = status
            /\ uid' = uid
            /\ jobs' = jobs)]_vars

C4_Witness ==
    \E j \in Jobs, c \in Calls, d \in Calls :
        /\ d < c
        /\ qcall[j][d].pc = "returned"
        /\ qcall[j][c].pc = "rejected_twice"

\* C5: cancel() of a queued or running job whose deletion the backend accepts
\* invokes the job's cancellation callback and leaves the job cancelled.
C5_CancelCancels ==
    [][\A o \in Ops :
        (/\ ops[o].kind = "cancel"
         /\ ops[o].pc = "fetch"
         /\ ops'[o].pc \in {"loop", "returned"}
         /\ status[ops[o].of] \in {"queued", "running"})
        => (/\ status'[ops[o].of] = "cancelled"
            /\ nCancelled'[ops[o].of] = nCancelled[ops[o].of] + 1)]_vars

\* C6: cancel() of a job that is building, completed, failed or cancelled
\* sends no deletion request, invokes no callback and changes neither a
\* status nor the registry.
C6_CancelNoOp ==
    [][\A o \in Ops :
        (/\ Finished(ops[o])
         /\ ops'[o] # ops[o]
         /\ ops'[o].kind = "cancel"
         /\ status[ops'[o].of] \in {"building", "completed", "failed", "cancelled"})
        => (/\ ~ops'[o].sent
            /\ ops'[o].pc = "returned"
            /\ status' = status
            /\ jobs' = jobs
            /\ \A j \in Jobs : CallbacksUnchanged(j))]_vars

C6_Witness ==
    \E o \in Ops :
        /\ ops[o].kind = "cancel"
        /\ ops[o].pc = "returned"
        /\ ~ops[o].sent
        /\ status[ops[o].of] = "completed"

\* C7: when clear_queue() returns after a success response, every job that
\* was queued or running when the response arrived has had its error callback
\* invoked, is failed, and has no entry in the registry.
C7_ClearQueueFailsAll ==
    [][\A o \in Ops :
        (/\ ops[o].kind = "clear_queue"
         /\ ops[o].pc \in {"fetch", "loop"}
         /\ ops'[o].pc = "returned")
        => \A j \in ops'[o].live1 :
              /\ status'[j] = "failed"
              /\ nError'[j] >= 1
              /\ j \notin Tracked(jobs')]_vars

\* C8: a step of clear_queue() or delete_queue_entries() changes the status
\* of no job that is already terminal and invokes none of its callbacks.
C8_BulkSparesTerminal ==
    [][\A o \in Ops :
        (/\ ops[o].kind \in {"clear_queue", "delete_queue_entries"}
         /\ ops[o].pc \in {"fetch", "loop"}
         /\ ops'[o] # ops[o])
        => \A j \in Jobs :
              status[j] \in Terminal
              => (status'[j] = status[j] /\ CallbacksUnchanged(j))]_vars

\* C9: the completion, cancellation and error callbacks of a job are each
\* invoked at most once.
C9_AtMostOnce ==
    \A j \in Jobs : nCompleted[j] <= 1 /\ nCancelled[j] <= 1 /\ nError[j] <= 1

\* C10: a job that reached completed while its cancel() was awaiting the
\* backend stays completed when the response arrives, and neither its
\* cancellation nor its error callback is invoked.
C10_CompletedSurvivesCancel ==
    [][\A o \in Ops :
        (/\ ops[o].kind = "cancel"
         /\ ops[o].pc = "fetch"
         /\ ops'[o].pc \in {"loop", "returned"}
         /\ status[ops[o].of] = "completed")
        => (/\ status'[ops[o].of] = "completed"
            /\ nCancelled'[ops[o].of] = nCancelled[ops[o].of]
            /\ nError'[ops[o].of] = nError[ops[o].of])]_vars

\* C11: at most one POST /prompt is ever sent for a job object, and the uid
\* of a job, once assigned, never changes.
C11_SubmittedOnce ==
    [][\A j \in Jobs :
        /\ Posts(j)' <= 1
        /\ uid[j] # NoId => uid'[j] = uid[j]]_vars

\* C15: every entry of the registry belongs to a job that is queued or
\* running, and no two entries have the same key.
C15_RegistryHoldsActive ==
    /\ \A i \in 1..Len(jobs) : status[jobs[i].job] \in {"queued", "running"}
    /\ \A i, k \in 1..Len(jobs) : jobs[i].key = jobs[k].key => i = k

\* C20: the final 'executing' frame of a job the backend accepted without
\* node errors invokes the completion callback and completes the job, also
\* when it is dispatched before queue() has resumed and registered the job.
C20_FinalFrameCompletes ==
    [][\A f \in Frames : \A j \in Jobs, c \in Calls :
        (/\ SocketMessage(f)
         /\ f.type = "executing"
         /\ f.node = NullNode
         /\ qcall[j][c].pc = "resp"
         /\ qcall[j][c].ok
         /\ ~qcall[j][c].node_errors
         /\ qcall[j][c].prompt_id = f.prompt_id)
        => (/\ status'[j] = "completed"
            /\ nCompleted'[j] = nCompleted[j] + 1)]_vars

\* C16: a socket close event, a socket error event and close() leave running
\* false, change no job's status, leave the registry as it is and invoke no
\* job callback; a close() after the first changes nothing of the client.
C16_CloseResolvesNothing ==
    [][(socket' # socket \/ nClose' # nClose) /\ socket' # "open"
       => /\ ~running'
          /\ UNCHANGED <<status, uid, jobs, nCompleted, nCancelled, nUpdate, nError>>
          /\ nClose' # nClose /\ nClose >= 1 => UNCHANGED <<running, socket>>]_vars

C16_Witness ==
    /\ nClose = 2
    /\ socket = "closing"
    /\ \E j \in Jobs : status[j] = "queued" /\ MapHas(jobs, uid[j])

\* C12: completion() of a submitted job resolves only when the job is
\* completed, failed or cancelled, never while it is queued or running.
C12_ResolvesWhenTerminal ==
    \A j \in Jobs : resolvedAt[j] \notin {"queued", "running"}

\* C14: clone() of a job in any state makes a job that is building, has no
\* uid and has the workflow of the original; no step that changes the status
\* or uid of one job changes those of another; and the first queue() of a
\* clone passes the guard and leaves the status of the original as it is.
C14_CloneIsFresh ==
    [][/\ \A k \in Jobs :
            workflow[k] = "absent" /\ workflow'[k] # "absent"
            => /\ status'[k] = "building"
               /\ uid'[k] = NoId
               /\ origin'[k] \in Made
               /\ workflow'[k] = workflow[origin'[k]]
               /\ \A j \in Made : status'[j] = status[j] /\ uid'[j] = uid[j]
       /\ \A j, k \in Made :
            j # k /\ (status'[j] # status[j] \/ uid'[j] # uid[j])
            => status'[k] = status[k] /\ uid'[k] = uid[k]
       /\ \A k \in Made, c \in Calls :
            (/\ origin[k] # NoJob
             /\ \A d \in Calls : qcall[k][d].pc = "idle"
             /\ qcall'[k][c].pc # "idle")
            => /\ qcall'[k][c].pc = "fetch"
               /\ status'[origin[k]] = status[origin[k]]]_vars

\* a clone of a never-submitted job is queued while the original is building
C14_Witness ==
    \E j, k \in Made :
        /\ origin[k] = j
        /\ workflow[k] = workflow[j]
        /\ status[k] = "queued"
        /\ status[j] = "building"
        /\ Posts(j) = 0

\* C17: when the response to the submission has node errors, onError is given
\* the node_errors of that response, and the failed job's errors are that
\* same value.
C17_NodeErrorsReported ==
    [][\A j \in Jobs, c \in Calls :
        (/\ qcall[j][c].pc = "resp"
         /\ qcall[j][c].ok
         /\ HasNodeErrors(qcall[j][c])
         /\ qcall'[j][c].pc # "resp")
        => /\ errArg'[j] = NodeErrorsOf(qcall[j][c])
           /\ errors'[j] = NodeErrorsOf(qcall[j][c])]_vars

\* C19: when the response to the POST /queue of clear_queue() or
\* delete_queue_entries() is not ok, the call throws an error whose message
\* is the status text and whose cause is the status code of that response,
\* no callback is invoked, no status changes and the registry is unchanged.
C19_RequestErrorTouchesNothing ==
    [][\A o \in Ops :
        (/\ ops[o].pc = "fetch"
         /\ ops'[o].pc # "fetch"
         /\ ~ResponseOk(response'))
        => /\ ops'[o].pc = "rejected_http"
           /\ thrown'.message = StatusText(response')
           /\ thrown'.cause = response'
           /\ UNCHANGED <<status, uid, jobs, nCompleted, nCancelled, nUpdate, nError>>]_vars

C19_Witness ==
    \E o \in Ops :
        /\ ops[o].kind = "clear_queue"
        /\ ops[o].pc = "rejected_http"
        /\ thrown = [message |-> "Internal Server Error", cause |-> 500]
        /\ \A j \in Jobs : status[j] = "queued" /\ MapHas(jobs, uid[j])

\* C18: a frame that is not JSON, or whose type is neither 'status' nor
\* 'executing', changes no status, invokes no callback and leaves the
\* registry as it is; and the final 'executing' frame of a tracked job that
\* comes right after such a frame completes the job as usual.
C18_DroppedFrames ==
    [][frames' # frames
       => /\ Dropped(last')
             => UNCHANGED <<status, uid, jobs, nCompleted, nCancelled, nUpdate, nError>>
          /\ (/\ Dropped(last)
              /\ last'.type = "executing"
              /\ last'.node = NullNode
              /\ MapHas(jobs, last'.prompt_id))
             => /\ status'[MapGet(jobs, last'.prompt_id).job] = "completed"
                /\ nCompleted'[MapGet(jobs, last'.prompt_id).job]
                     = nCompleted[MapGet(jobs, last'.prompt_id).job] + 1]_vars

\* a frame of another type named a tracked prompt with node null and was
\* dropped, and the final frame after it completed the job
C18_Witness ==
    \E j \in Jobs :
        /\ before = "executed"
        /\ last = [type |-> "executing", prompt_id |-> uid[j], node |-> NullNode]
        /\ status[j] = "completed"
        /\ nCompleted[j] = 1

\* C21: when the response to the POST /prompt of a queue() called on a
\* building job is not ok, queue() throws an error whose message is the
\* status text and whose cause is the status code of that response, and the
\* job is building, has no uid and no registry entry, and no callback of it
\* is invoked.
C21_RejectedQueueLeavesBuilding ==
    [][\A j \in Jobs, c \in Calls :
        (/\ qcall[j][c].pc = "resp"
         /\ qcall'[j][c].pc # "resp"
         /\ ~ResponseOk(promptResponse'))
        => /\ qcall'[j][c].pc = "rejected_http"
           /\ promptThrown'.message = StatusText(promptResponse')
           /\ promptThrown'.cause = promptResponse'
           /\ status'[j] = "building"
           /\ uid'[j] = NoId
           /\ j \notin Tracked(jobs')
           /\ CallbacksUnchanged(j)]_vars

====
